---- MODULE Spec2Model ----
(***************************************************************************)
(* Model of podman-autoupdate-hook: the /hook route of src/main.rs.        *)
(* A request passes the GovernorLayer (rate limiter keyed by UserToken),   *)
(* then `handler`: the match over (token, auth, github_signature,          *)
(* github_event), the body hashing loop, the signature comparison, the     *)
(* event filter, and finally `podman auto-update --format json`.           *)
(*                                                                         *)
(* Strings and byte strings are sequences (of one-character strings, of    *)
(* small naturals); Option<T> is a sequence of length 0 (None) or 1 (Some).*)
(***************************************************************************)
EXTENDS Integers, Sequences, FiniteSets, TLC

VARIABLES
    token,      \* State(Token(opt.command)): the policy, fixed at startup
    requests    \* request id -> state of that request's task

vars == <<token, requests>>

----------------------------------------------------------------------------
(* Bounds *)

\* most items (chunks) a body stream yields before it ends or fails
MaxChunks == 2

\* ids of the requests of the single-request specification
ReqIds == {1}

----------------------------------------------------------------------------
(* Strings *)

None == <<>>
Some(v) == <<v>>

\* a byte that is not visible ASCII (HeaderValue::to_str fails on it)
NonAscii == "\\x80"

BearerPrefix == <<"B", "e", "a", "r", "e", "r", " ">>
BasicPrefix == <<"B", "a", "s", "i", "c", " ">>

TokT == <<"t">>
TokU == <<"u">>

EvPush == <<"p", "u", "s", "h">>
EvPull == <<"p", "r">>
EvRelease == <<"r", "e", "l">>

StartsWith(s, p) == Len(s) >= Len(p) /\ SubSeq(s, 1, Len(p)) = p

StripPrefix(s, p) ==
    IF StartsWith(s, p) THEN Some(SubSeq(s, Len(p) + 1, Len(s))) ELSE None

\* HeaderValue::to_str: Ok only when every byte is visible ASCII
ToStr(v) == IF \E k \in 1..Len(v) : v[k] = NonAscii THEN None ELSE Some(v)

\* str::split_once('='): the parts before and after the FIRST '='
SplitOnce(s, c) ==
    IF \E k \in 1..Len(s) : s[k] = c
    THEN LET k == CHOOSE j \in 1..Len(s) :
                      s[j] = c /\ \A m \in 1..(j - 1) : s[m] # c
         IN Some(<<SubSeq(s, 1, k - 1), SubSeq(s, k + 1, Len(s))>>)
    ELSE None

\* slice::contains
Contains(list, x) == \E k \in 1..Len(list) : list[k] = x

----------------------------------------------------------------------------
(* Sha256 and hex::encode.  The digest is abstracted to one byte: the      *)
(* accumulator is folded over the bytes fed to it, in the order fed, so    *)
(* that it depends on the byte sequence and not on how it was chunked.     *)

Sha256New == 17

RECURSIVE Sha256Update(_, _)
Sha256Update(h, bytes) ==
    IF bytes = <<>> THEN h
    ELSE Sha256Update((h * 31 + bytes[1] + 1) % 256, Tail(bytes))

Sha256Finalize(h) == <<h>>

HexDigits ==
    <<"0", "1", "2", "3", "4", "5", "6", "7",
      "8", "9", "a", "b", "c", "d", "e", "f">>

RECURSIVE HexEncode(_)
HexEncode(bytes) ==
    IF bytes = <<>> THEN <<>>
    ELSE <<HexDigits[(bytes[1] \div 16) + 1], HexDigits[(bytes[1] % 16) + 1]>>
             \o HexEncode(Tail(bytes))

\* hex(hash(secret || body)) of a whole byte string
DigestOf(secret, body) ==
    HexEncode(Sha256Finalize(Sha256Update(Sha256Update(Sha256New, secret), body)))

----------------------------------------------------------------------------
(* Header extractors *)

\* Option<TypedHeader<Authorization<Bearer>>>, then Bearer::token()
AuthDecode(values) ==
    IF values = <<>> THEN None
    ELSE IF ToStr(values[1]) = None THEN None
    ELSE StripPrefix(values[1], BearerPrefix)

\* GithubSignature256::decode behind Option<TypedHeader<..>>: the first
\* value of the header, None when absent or not text
GithubSignature256Decode(values) ==
    IF values = <<>> THEN None ELSE ToStr(values[1])

\* GithubEvent::decode behind Option<TypedHeader<..>>
GithubEventDecode(values) ==
    IF values = <<>> THEN None ELSE ToStr(values[1])

\* char::is_whitespace over the characters a header value can hold
IsWhitespace(c) == c \in {" ", "\t"}

\* str::trim
RECURSIVE TrimStart(_)
TrimStart(s) == IF s # <<>> /\ IsWhitespace(s[1]) THEN TrimStart(Tail(s)) ELSE s

RECURSIVE TrimEnd(_)
TrimEnd(s) ==
    IF s # <<>> /\ IsWhitespace(s[Len(s)])
    THEN TrimEnd(SubSeq(s, 1, Len(s) - 1)) ELSE s

Trim(s) == TrimEnd(TrimStart(s))

\* UserToken::extract without the `.trim()`
UserTokenExtractNoTrim(values) ==
    IF values = <<>> THEN <<>>
    ELSE IF ToStr(values[1]) = None THEN <<>>
    ELSE LET rest == StripPrefix(values[1], BearerPrefix)
         IN IF rest = None THEN <<>> ELSE rest[1]

\* UserToken::extract: the rate-limit key
UserTokenExtract(values) ==
    IF values = <<>> THEN <<>>
    ELSE IF ToStr(values[1]) = None THEN <<>>
    ELSE LET rest == StripPrefix(values[1], BearerPrefix)
         IN IF rest = None THEN <<>> ELSE Trim(rest[1])

----------------------------------------------------------------------------
(* Inputs *)

\* Option<TokenCommand>
NoToken == [kind |-> "None", bearer |-> <<>>, secret |-> <<>>, events |-> <<>>]
TokenCmd(b) == [kind |-> "Token", bearer |-> b, secret |-> <<>>, events |-> <<>>]
GithubCmd(s, ev) == [kind |-> "Github", bearer |-> <<>>, secret |-> s, events |-> ev]

Secret == <<7>>
Secret2 == <<7, 1>>

Policies ==
    { NoToken, TokenCmd(TokT),
      GithubCmd(Secret, <<>>),
      GithubCmd(Secret, <<EvPush>>),
      GithubCmd(Secret, <<EvPush, EvRelease>>),
      GithubCmd(Secret2, <<>>) }

AuthHeaders ==
    { <<>>, <<BearerPrefix \o TokT>>, <<BearerPrefix \o TokU>>,
      <<BasicPrefix \o TokT>> }

EventHeaders == { <<>>, <<EvPush>>, <<EvPull>>, <<<<NonAscii>>>> }

Chunks == { <<1>>, <<2>>, <<1, 2>> }

Ok(b) == [ok |-> TRUE, bytes |-> b]
Err == [ok |-> FALSE, bytes |-> <<>>]

RECURSIVE OkStreams(_)
OkStreams(n) ==
    IF n = 0 THEN { <<>> }
    ELSE LET shorter == OkStreams(n - 1)
         IN shorter \cup { Append(s, Ok(c)) : s \in shorter, c \in Chunks }

\* a body stream: chunks, then either the end or an error item
Streams ==
    OkStreams(MaxChunks) \cup { Append(s, Err) : s \in OkStreams(MaxChunks) }

Sha256Prefix == <<"s", "h", "a", "2", "5", "6">>

SigFor(body) == Sha256Prefix \o <<"=">> \o DigestOf(Secret, body)

SignatureHeaders ==
    { <<>>,
      <<SigFor(<<>>)>>, <<SigFor(<<1>>)>>, <<SigFor(<<1, 2>>)>>,
      <<<<"=">> \o DigestOf(Secret, <<1>>)>>,
      <<<<"x", "=", "y", "=">> \o DigestOf(Secret, <<1>>)>>,
      <<DigestOf(Secret, <<1>>)>>,
      <<Sha256Prefix \o <<"=", "z", "z">>>>,
      <<SigFor(<<2>>), SigFor(<<1>>)>>,
      <<<<"m", "d", "5", "=">> \o DigestOf(Secret, <<1, 2>>)>>,
      <<<<NonAscii>>>> }

----------------------------------------------------------------------------
(* Output of `podman auto-update --format json`.  Standard output is a     *)
(* sequence of lexical items: "[" "]" "," "ws" (whitespace), "objF" and    *)
(* "objP" (an object with every field of AutoUpdateReponse and Updated     *)
(* "false" / "pending"), "objBad" (an object that is not an                *)
(* AutoUpdateReponse) and "x" (any other text).                            *)

Record(updated) ==
    [Unit |-> "u", Container |-> "c", Image |-> "i", ContainerName |-> "c",
     ContainerID |-> "id", Policy |-> "registry", Updated |-> updated]

ParseError == [ok |-> FALSE, records |-> <<>>]
Parsed(recs) == [ok |-> TRUE, records |-> recs]

RECURSIVE SkipWs(_)
SkipWs(s) == IF s # <<>> /\ s[1] = "ws" THEN SkipWs(Tail(s)) ELSE s

\* Deserialize for AutoUpdateReponse
ParseObject(item) ==
    IF item = "objF" THEN Some(Record("false"))
    ELSE IF item = "objP" THEN Some(Record("pending"))
    ELSE None

\* the elements of an array after its first one: ("," object)* "]" ws* end
RECURSIVE ParseRest(_, _)
ParseRest(s, acc) ==
    LET t == SkipWs(s)
    IN IF t = <<>> THEN ParseError
       ELSE IF t[1] = "]"
            THEN IF SkipWs(Tail(t)) = <<>> THEN Parsed(acc) ELSE ParseError
       ELSE IF t[1] = ","
            THEN LET u == SkipWs(Tail(t))
                 IN IF u = <<>> \/ ParseObject(u[1]) = None THEN ParseError
                    ELSE ParseRest(Tail(u), Append(acc, ParseObject(u[1])[1]))
       ELSE ParseError

\* serde_json::from_slice::<Vec<AutoUpdateReponse>>
FromSlice(stdout) ==
    LET t == SkipWs(stdout)
    IN IF t = <<>> \/ t[1] # "[" THEN ParseError
       ELSE LET u == SkipWs(Tail(t))
            IN IF u = <<>> THEN ParseError
               ELSE IF u[1] = "]"
                    THEN IF SkipWs(Tail(u)) = <<>> THEN Parsed(<<>>)
                         ELSE ParseError
               ELSE IF ParseObject(u[1]) = None THEN ParseError
               ELSE ParseRest(Tail(u), <<ParseObject(u[1])[1]>>)

\* Result<Output, io::Error> of Command::output()
SpawnFailed == [spawned |-> FALSE, success |-> FALSE, stdout |-> <<>>, stderr |-> <<>>]
Output(succ, out, err) == [spawned |-> TRUE, success |-> succ, stdout |-> out, stderr |-> err]

Stdouts ==
    { <<>>, <<"x">>,
      <<"[", "]">>,
      <<"[", "objP", "]", "ws">>,
      <<"[", "objF", ",", "objP", "]">>,
      <<"[", "objBad", "]">>,
      <<"[", "objP">>,
      <<"ws", "[", "objP", "]">> }

Stderrs == { <<>>, <<"x">> }

CommandResults ==
    { SpawnFailed } \cup
    { Output(succ, out, err) : succ \in BOOLEAN, out \in Stdouts, err \in Stderrs }

----------------------------------------------------------------------------
(* Responses *)

OK == 200
BAD_REQUEST == 400
UNAUTHORIZED == 401
TOO_MANY_REQUESTS == 429
INTERNAL_SERVER_ERROR == 500

NoBody == [json |-> FALSE, records |-> <<>>]
Json(recs) == [json |-> TRUE, records |-> recs]

\* the request's task ends with a response
Respond(r, st, bd) == [r EXCEPT !.pc = "done", !.status = st, !.body = bd]

\* tracing::debug! / info! / error!
Log(r, msg) == [r EXCEPT !.log = Append(@, msg)]

\* lines 152-159: the command is spawned and the task awaits its output
RunUpdate(r) ==
    [Log(r, "running update") EXCEPT !.pc = "awaiting", !.invoked = @ + 1]

----------------------------------------------------------------------------
(* The request task *)

NewRequest(authorization, signature, event, stream) ==
    [pc |-> "received",
     authorization |-> authorization,   \* values of the Authorization header
     signature |-> signature,           \* values of X-Hub-Signature-256
     event |-> event,                   \* values of X-GitHub-Event
     stream |-> stream,                 \* items the BodyStream will yield
     pos |-> 0,                         \* items taken from the stream
     failed |-> FALSE,                  \* the stream yielded its error item
     key |-> None,                      \* rate-limit key, once extracted
     admit |-> None,                    \* the limiter's decision, once taken
     hasher |-> None,                   \* Sha256 accumulator, once created
     finalized |-> FALSE,               \* hasher.finalize() was called
     log |-> <<>>,                      \* tracing messages of the handler
     invoked |-> 0,                     \* times the update command was run
     command |-> None,                  \* result of Command::output()
     status |-> 0,                      \* response status, 0 while none
     body |-> NoBody]

NotArrived == [pc |-> "none"]

\* GovernorCall with the limiter's rejection not enforced
GovernorCallFailOpen(r, admit) ==
    [r EXCEPT !.key = Some(UserTokenExtract(r.authorization)),
              !.admit = Some(admit),
              !.pc = "handler"]

\* GovernorLayer around the route: the key is extracted, the limiter decides,
\* and only an admitted request is passed on to `handler`
GovernorCall(r, admit) ==
    LET keyed == [r EXCEPT !.key = Some(UserTokenExtract(r.authorization)),
                           !.admit = Some(admit)]
    IN IF admit THEN [keyed EXCEPT !.pc = "handler"]
       ELSE Respond(keyed, TOO_MANY_REQUESTS, NoBody)

\* MatchArm without the guard `if t1 == t2.token()` on its first arm
MatchArmNoTokenGuard(tok, auth, github_signature, github_event) ==
    IF tok.kind = "Token"
    THEN IF auth # None /\ github_signature = None /\ github_event = None
         THEN 1 ELSE 2
    ELSE IF tok.kind = "Github"
    THEN IF auth = None /\ github_signature # None THEN 3
         ELSE IF github_signature = None THEN 4
         ELSE 5
    ELSE 5

\* MatchArm whose signature arm takes any `auth`, not only None
MatchArmSignatureAnyAuth(tok, auth, github_signature, github_event) ==
    IF tok.kind = "Token"
    THEN IF /\ auth # None
            /\ github_signature = None
            /\ github_event = None
            /\ tok.bearer = auth[1]
         THEN 1 ELSE 2
    ELSE IF tok.kind = "Github"
    THEN IF github_signature # None THEN 3 ELSE 4
    ELSE 5

\* MatchArm with the catch-all arm `_ => {}` turned into a rejection
MatchArmFailClosed(tok, auth, github_signature, github_event) ==
    IF tok.kind = "Token"
    THEN IF /\ auth # None
            /\ github_signature = None
            /\ github_event = None
            /\ tok.bearer = auth[1]
         THEN 1 ELSE 2
    ELSE IF tok.kind = "Github"
    THEN IF auth = None /\ github_signature # None THEN 3
         ELSE IF github_signature = None THEN 4
         ELSE 2
    ELSE 2

\* which arm of the match at line 102 is taken
MatchArm(tok, auth, github_signature, github_event) ==
    IF tok.kind = "Token"
    THEN IF /\ auth # None
            /\ github_signature = None
            /\ github_event = None
            /\ tok.bearer = auth[1]
         THEN 1 ELSE 2
    ELSE IF tok.kind = "Github"
    THEN IF auth = None /\ github_signature # None THEN 3
         ELSE IF github_signature = None THEN 4
         ELSE 5
    ELSE 5

\* lines 102-150 up to the first await, and lines 152-159 when the match
\* falls through
HandlerEnter(r, tok) ==
    LET arm == MatchArm(tok, AuthDecode(r.authorization),
                        GithubSignature256Decode(r.signature),
                        GithubEventDecode(r.event))
    IN CASE arm = 1 -> RunUpdate(r)
         [] arm = 2 -> Respond(Log(r, "token mismatch"), UNAUTHORIZED, NoBody)
         [] arm = 3 ->
              [r EXCEPT !.pc = "reading",
                        !.hasher = Some(Sha256Update(Sha256New, tok.secret))]
         [] arm = 4 ->
              Respond(Log(r, "missing github signature header"),
                      BAD_REQUEST, NoBody)
         [] OTHER -> RunUpdate(r)

\* EventFilter without the arm `([], _) => {}` for an empty allow-list
EventFilterNoEmptyArm(r, events, event) ==
    IF event = None
    THEN Respond(Log(r, "missing github event header"), BAD_REQUEST, NoBody)
    ELSE IF ~Contains(events, event[1])
    THEN Respond(Log(r, "github event mismatch, ignoring"), OK, NoBody)
    ELSE RunUpdate(r)

\* EventFilter answering an event outside the allow-list as an error
EventFilterHardReject(r, events, event) ==
    IF events = <<>> THEN RunUpdate(r)
    ELSE IF event = None
    THEN Respond(Log(r, "missing github event header"), BAD_REQUEST, NoBody)
    ELSE IF ~Contains(events, event[1])
    THEN Respond(Log(r, "github event mismatch, ignoring"), UNAUTHORIZED, NoBody)
    ELSE RunUpdate(r)

\* lines 132-143: the event filter
EventFilter(r, events, event) ==
    IF events = <<>> THEN RunUpdate(r)
    ELSE IF event = None
    THEN Respond(Log(r, "missing github event header"), BAD_REQUEST, NoBody)
    ELSE IF ~Contains(events, event[1])
    THEN Respond(Log(r, "github event mismatch, ignoring"), OK, NoBody)
    ELSE RunUpdate(r)

\* AfterBody with the event filter ahead of the signature comparison
AfterBodyEventFirst(r, tok) ==
    LET split == SplitOnce(GithubSignature256Decode(r.signature)[1], "=")
        event == GithubEventDecode(r.event)
    IN IF split = None THEN Respond(r, BAD_REQUEST, NoBody)
       ELSE IF tok.events # <<>> /\ event = None
       THEN Respond(Log(r, "missing github event header"), BAD_REQUEST, NoBody)
       ELSE IF tok.events # <<>> /\ ~Contains(tok.events, event[1])
       THEN Respond(Log(r, "github event mismatch, ignoring"), OK, NoBody)
       ELSE LET f == [r EXCEPT !.finalized = TRUE]
            IN IF HexEncode(Sha256Finalize(r.hasher[1])) # split[1][2]
               THEN Respond(Log(f, "github signature mismatch"),
                            UNAUTHORIZED, NoBody)
               ELSE RunUpdate(f)

\* AfterBody answering a value without '=' like a digest mismatch
AfterBodyMalformedUnauthorized(r, tok) ==
    LET split == SplitOnce(GithubSignature256Decode(r.signature)[1], "=")
    IN IF split = None THEN Respond(r, UNAUTHORIZED, NoBody)
       ELSE LET f == [r EXCEPT !.finalized = TRUE]
            IN IF HexEncode(Sha256Finalize(r.hasher[1])) # split[1][2]
               THEN Respond(Log(f, "github signature mismatch"),
                            UNAUTHORIZED, NoBody)
               ELSE EventFilter(f, tok.events, GithubEventDecode(r.event))

\* lines 121-143: after the loop has ended
AfterBody(r, tok) ==
    LET split == SplitOnce(GithubSignature256Decode(r.signature)[1], "=")
    IN IF split = None THEN Respond(r, BAD_REQUEST, NoBody)
       ELSE LET signature_exp == split[1][2]
                signature == HexEncode(Sha256Finalize(r.hasher[1]))
                f == [r EXCEPT !.finalized = TRUE]
            IN IF signature # signature_exp
               THEN Respond(Log(f, "github signature mismatch"),
                            UNAUTHORIZED, NoBody)
               ELSE EventFilter(f, tok.events, GithubEventDecode(r.event))

\* StreamStep with a hasher that is started afresh for every chunk
StreamStepLastChunkOnly(r, tok) ==
    IF r.pos < Len(r.stream)
    THEN LET item == r.stream[r.pos + 1]
             took == [r EXCEPT !.pos = @ + 1]
         IN IF item.ok
            THEN [took EXCEPT !.hasher =
                      Some(Sha256Update(Sha256Update(Sha256New, tok.secret),
                                        item.bytes))]
            ELSE AfterBody([took EXCEPT !.failed = TRUE], tok)
    ELSE AfterBody(r, tok)

\* line 117: one stream.next().await of `while let Some(Ok(b))`
StreamStep(r, tok) ==
    IF r.pos < Len(r.stream)
    THEN LET item == r.stream[r.pos + 1]
             took == [r EXCEPT !.pos = @ + 1]
         IN IF item.ok
            THEN [took EXCEPT !.hasher = Some(Sha256Update(@[1], item.bytes))]
            ELSE AfterBody([took EXCEPT !.failed = TRUE], tok)
    ELSE AfterBody(r, tok)

\* CommandFinish taking any standard-error output for a failure
CommandFinishStderrFails(r, res) ==
    LET c == [r EXCEPT !.command = Some(res)]
    IN IF ~res.spawned
       THEN Respond(Log(c, "failed to run command"),
                    INTERNAL_SERVER_ERROR, NoBody)
       ELSE IF ~res.success \/ res.stderr # <<>>
       THEN Respond(Log(c, "command failed with status"),
                    INTERNAL_SERVER_ERROR, NoBody)
       ELSE IF StartsWith(res.stdout, <<"[">>)
       THEN LET parsed == FromSlice(res.stdout)
            IN IF parsed.ok THEN Respond(c, OK, Json(parsed.records))
               ELSE [c EXCEPT !.pc = "panicked"]
       ELSE Respond(c, OK, Json(<<>>))

\* CommandFinish running the command a second time after a failure
CommandFinishRetryOnce(r, res) ==
    LET c == [r EXCEPT !.command = Some(res)]
    IN IF (~res.spawned \/ ~res.success) /\ r.invoked < 2
       THEN RunUpdate(r)
       ELSE IF ~res.spawned \/ ~res.success
       THEN Respond(Log(c, "command failed with status"),
                    INTERNAL_SERVER_ERROR, NoBody)
       ELSE IF StartsWith(res.stdout, <<"[">>)
       THEN LET parsed == FromSlice(res.stdout)
            IN IF parsed.ok THEN Respond(c, OK, Json(parsed.records))
               ELSE [c EXCEPT !.pc = "panicked"]
       ELSE Respond(c, OK, Json(<<>>))

\* lines 160-187: the output of the command becomes the response
CommandFinish(r, res) ==
    LET c == [r EXCEPT !.command = Some(res)]
    IN IF ~res.spawned
       THEN Respond(Log(c, "failed to run command"),
                    INTERNAL_SERVER_ERROR, NoBody)
       ELSE IF ~res.success
       THEN Respond(Log(c, "command failed with status"),
                    INTERNAL_SERVER_ERROR, NoBody)
       ELSE LET d == IF res.stderr # <<>> THEN Log(c, "stderr") ELSE c
            IN IF StartsWith(res.stdout, <<"[">>)
               THEN LET parsed == FromSlice(res.stdout)
                    IN IF parsed.ok THEN Respond(d, OK, Json(parsed.records))
                       ELSE [d EXCEPT !.pc = "panicked"]
               ELSE Respond(d, OK, Json(<<>>))

----------------------------------------------------------------------------
(* Actions *)

\* main, lines 46-71: the policy comes from the command line
Init ==
    /\ token \in Policies
    /\ requests = [i \in ReqIds |-> NotArrived]

\* a request reaches the server
Arrive(i) ==
    /\ requests[i].pc = "none"
    /\ \E a \in AuthHeaders, sg \in SignatureHeaders,
          e \in EventHeaders, st \in Streams :
          requests' = [requests EXCEPT ![i] = NewRequest(a, sg, e, st)]
    /\ UNCHANGED token

Governor(i) ==
    /\ requests[i].pc = "received"
    /\ \E admit \in BOOLEAN :
          requests' = [requests EXCEPT ![i] = GovernorCall(@, admit)]
    /\ UNCHANGED token

Handler(i) ==
    /\ requests[i].pc = "handler"
    /\ requests' = [requests EXCEPT ![i] = HandlerEnter(@, token)]
    /\ UNCHANGED token

\* StreamNext with one hasher shared by the requests that are being read
StreamNextSharedHasher(i) ==
    /\ requests[i].pc = "reading"
    /\ LET r == requests[i]
           fed == IF r.pos < Len(r.stream) /\ r.stream[r.pos + 1].ok
                  THEN r.stream[r.pos + 1].bytes ELSE <<>>
       IN requests' =
              [j \in DOMAIN requests |->
                  IF j = i THEN StreamStep(r, token)
                  ELSE IF requests[j].pc = "reading"
                  THEN [requests[j] EXCEPT !.hasher = Some(Sha256Update(@[1], fed))]
                  ELSE requests[j]]
    /\ UNCHANGED token

StreamNext(i) ==
    /\ requests[i].pc = "reading"
    /\ requests' = [requests EXCEPT ![i] = StreamStep(@, token)]
    /\ UNCHANGED token

CommandOutput(i) ==
    /\ requests[i].pc = "awaiting"
    /\ \E res \in CommandResults :
          requests' = [requests EXCEPT ![i] = CommandFinish(@, res)]
    /\ UNCHANGED token

Next ==
    \/ \E i \in DOMAIN requests : Arrive(i)
    \/ \E i \in DOMAIN requests : Governor(i)
    \/ \E i \in DOMAIN requests : Handler(i)
    \/ \E i \in DOMAIN requests : StreamNext(i)
    \/ \E i \in DOMAIN requests : CommandOutput(i)

Spec == Init /\ [][Next]_vars

----------------------------------------------------------------------------
(* The limiter layer alone, for two requests and a wider choice of         *)
(* Authorization headers: requests arrive and the GovernorLayer keys them. *)

KeyReqIds == {1, 2}

KeyAuthHeaders ==
    { <<>>,
      <<BearerPrefix \o TokT>>,
      <<BearerPrefix \o TokU>>,
      <<BearerPrefix \o <<" ">> \o TokU \o <<" ">>>>,
      <<BearerPrefix \o <<"\t">> \o TokT \o <<"\t", " ">>>>,
      <<BearerPrefix \o TokT \o <<" ">> \o TokU>>,
      <<BearerPrefix \o BearerPrefix \o TokT>>,
      <<BearerPrefix>>,
      <<BearerPrefix \o <<" ", " ">>>>,
      <<<<"B", "e", "a", "r", "e", "r">>>>,
      <<<<"b", "e", "a", "r", "e", "r", " ">> \o TokT>>,
      <<<<" ">> \o BearerPrefix \o TokT>>,
      <<BasicPrefix \o TokT>>,
      <<BearerPrefix \o <<NonAscii>>>>,
      <<BearerPrefix \o TokU, BearerPrefix \o TokT>> }

InitKey ==
    /\ token \in Policies
    /\ requests = [i \in KeyReqIds |-> NotArrived]

ArriveKey(i) ==
    /\ requests[i].pc = "none"
    /\ \E a \in KeyAuthHeaders :
          requests' = [requests EXCEPT ![i] = NewRequest(a, <<>>, <<>>, <<>>)]
    /\ UNCHANGED token

NextKey ==
    \/ \E i \in DOMAIN requests : ArriveKey(i)
    \/ \E i \in DOMAIN requests : Governor(i)

SpecKey == InitKey /\ [][NextKey]_vars

----------------------------------------------------------------------------
(* Two requests handled concurrently: each is a task of its own, and the   *)
(* steps of the two tasks interleave at their await points.                *)

ConcReqIds == {1, 2}

ConcAuthHeaders == { <<>>, <<BearerPrefix \o TokT>> }

ConcSignatureHeaders == { <<>>, <<SigFor(<<1>>)>>, <<SigFor(<<1, 2>>)>> }

ConcEventHeaders == { <<>>, <<EvPush>> }

ConcStreams == { <<Ok(<<1>>)>>, <<Ok(<<1>>), Ok(<<2>>)>>, <<Ok(<<1>>), Err>> }

ConcCommandResults ==
    { SpawnFailed,
      Output(TRUE, <<"[", "objP", "]", "ws">>, <<>>),
      Output(TRUE, <<"[", "objP">>, <<"x">>) }

InitConc ==
    /\ token \in Policies
    /\ requests = [i \in ConcReqIds |-> NotArrived]

ArriveConc(i) ==
    /\ requests[i].pc = "none"
    /\ \E a \in ConcAuthHeaders, sg \in ConcSignatureHeaders,
          e \in ConcEventHeaders, st \in ConcStreams :
          requests' = [requests EXCEPT ![i] = NewRequest(a, sg, e, st)]
    /\ UNCHANGED token

CommandOutputConc(i) ==
    /\ requests[i].pc = "awaiting"
    /\ \E res \in ConcCommandResults :
          requests' = [requests EXCEPT ![i] = CommandFinish(@, res)]
    /\ UNCHANGED token

NextConc ==
    \/ \E i \in DOMAIN requests : ArriveConc(i)
    \/ \E i \in DOMAIN requests : Governor(i)
    \/ \E i \in DOMAIN requests : Handler(i)
    \/ \E i \in DOMAIN requests : StreamNext(i)
    \/ \E i \in DOMAIN requests : CommandOutputConc(i)

SpecConc == InitConc /\ [][NextConc]_vars

----------------------------------------------------------------------------
(* Vocabulary of the properties *)

Auth(r) == AuthDecode(r.authorization)
Sig(r) == GithubSignature256Decode(r.signature)
Event(r) == GithubEventDecode(r.event)

Arrived == { i \in DOMAIN requests : requests[i].pc # "none" }

\* the handler has run its match on the request
Entered(r) == r.pc \in {"reading", "awaiting", "done", "panicked"} /\ r.admit = Some(TRUE)

\* ... and has left the body loop (or never went into it)
PastBody(r) == Entered(r) /\ r.pc # "reading"

\* the bytes the stream delivers before it ends or fails
RECURSIVE BodyOf(_)
BodyOf(stream) ==
    IF stream = <<>> \/ ~stream[1].ok THEN <<>>
    ELSE stream[1].bytes \o BodyOf(Tail(stream))

StreamFails(stream) == \E k \in 1..Len(stream) : ~stream[k].ok

WellFormed(sig) == sig # None /\ \E k \in 1..Len(sig[1]) : sig[1][k] = "="

\* the part of a well-formed signature after its first '='
DigestPart(sig) ==
    LET k == CHOOSE j \in 1..Len(sig[1]) :
                 sig[1][j] = "=" /\ \A m \in 1..(j - 1) : sig[1][m] # "="
    IN SubSeq(sig[1], k + 1, Len(sig[1]))

\* the presented signature carries hex(hash(secret || body))
Verifies(r) ==
    WellFormed(Sig(r)) /\ DigestPart(Sig(r)) = DigestOf(token.secret, BodyOf(r.stream))

Mismatches(r) ==
    WellFormed(Sig(r)) /\ DigestPart(Sig(r)) # DigestOf(token.secret, BodyOf(r.stream))

Logged(r, msg) == \E k \in 1..Len(r.log) : r.log[k] = msg

\* the outcomes of the Authenticator, as the handler shows them
Authorized(r) == r.invoked = 1 /\ Logged(r, "running update")
Rejected(r, st) ==
    r.pc = "done" /\ r.status = st /\ r.body = NoBody /\ r.invoked = 0
Ignored(r) == Rejected(r, OK)

\* the rows of the decision table that give Authorized
TableAuthorized(r) ==
    \/ token.kind = "None"
    \/ token.kind = "Token" /\ Auth(r) = Some(token.bearer)
    \/ /\ token.kind = "Github"
       /\ Auth(r) = None
       /\ Verifies(r)
       /\ token.events = <<>> \/ (Event(r) # None /\ Contains(token.events, Event(r)[1]))

----------------------------------------------------------------------------
(* Properties *)

\* C1: fail closed - the update command is started for a request only if the
\* decision table classifies the request as Authorized.
C1_FailClosed ==
    \A i \in Arrived : requests[i].invoked > 0 => TableAuthorized(requests[i])

\* C2: under SignedWebhook every request that presents a bearer token is
\* Rejected(Unauthorized) and does not start the update command, whatever its
\* signature and event headers.
C2_BearerRejectedUnderSignedWebhook ==
    \A i \in Arrived :
        LET r == requests[i]
        IN (token.kind = "Github" /\ Auth(r) # None /\ Entered(r))
               => Rejected(r, UNAUTHORIZED)

\* C3 (as claimed): under StaticToken a request presenting the expected
\* bearer is Authorized whatever its signature and event headers; any other
\* bearer, or none, is Rejected(Unauthorized).
C3_StaticTokenIgnoresOtherHeaders ==
    \A i \in Arrived :
        LET r == requests[i]
        IN (token.kind = "Token" /\ Entered(r))
               => IF Auth(r) = Some(token.bearer) THEN Authorized(r)
                  ELSE Rejected(r, UNAUTHORIZED)

\* C3 (amended): under StaticToken a request presenting the expected bearer
\* and neither a signature nor an event header is Authorized; a request with
\* another bearer, with no bearer, or with the expected bearer next to a
\* signature or event header is Rejected(Unauthorized), the command not run.
C3_StaticToken ==
    \A i \in Arrived :
        LET r == requests[i]
        IN (token.kind = "Token" /\ Entered(r))
               => IF /\ Auth(r) = Some(token.bearer)
                     /\ Sig(r) = None
                     /\ Event(r) = None
                  THEN Authorized(r)
                  ELSE Rejected(r, UNAUTHORIZED)

C3_Witness ==
    \E i \in Arrived :
        LET r == requests[i]
        IN /\ token.kind = "Token"
           /\ Auth(r) = Some(token.bearer)
           /\ r.signature = <<>> /\ r.event = <<>>
           /\ Authorized(r)
           /\ r.pc = "done" /\ r.status = OK

\* C4: under SignedWebhook with no allowed_events and no bearer, a signature
\* carrying hex(hash(secret || body)) is Authorized with or without an event
\* header (200 with the invoker's result when the command succeeds); a
\* signature whose digest differs is Rejected(Unauthorized); no signature
\* header is Rejected(BadRequest).  The body is the one a stream delivers to
\* its end.
C4_SignedWebhookNoEvents ==
    \A i \in Arrived :
        LET r == requests[i]
        IN (token.kind = "Github" /\ token.events = <<>> /\ Auth(r) = None)
               => /\ (Entered(r) /\ Sig(r) = None) => Rejected(r, BAD_REQUEST)
                  /\ (PastBody(r) /\ ~StreamFails(r.stream) /\ Mismatches(r))
                         => Rejected(r, UNAUTHORIZED)
                  /\ (PastBody(r) /\ ~StreamFails(r.stream) /\ Verifies(r))
                         => /\ Authorized(r)
                            /\ (r.pc = "done" /\ r.command[1].success)
                                   => r.status = OK /\ r.body.json

C4_Witness ==
    \E i \in Arrived :
        LET r == requests[i]
        IN /\ token.kind = "Github" /\ token.events = <<>> /\ Auth(r) = None
           /\ Len(r.stream) = 2 /\ ~StreamFails(r.stream) /\ Verifies(r)
           /\ Event(r) # None
           /\ r.pc = "done" /\ r.status = OK /\ Len(r.body.records) = 2

\* C5: under SignedWebhook with a non-empty allowed_events, no bearer and a
\* signature that verifies: a member event is Authorized; a non-member event
\* is Ignored (200, empty body, command not started); a missing event header
\* is Rejected(BadRequest), command not started.
C5_EventFilter ==
    \A i \in Arrived :
        LET r == requests[i]
        IN (/\ token.kind = "Github" /\ token.events # <<>> /\ Auth(r) = None
            /\ PastBody(r) /\ ~StreamFails(r.stream) /\ Verifies(r))
               => IF Event(r) = None THEN Rejected(r, BAD_REQUEST)
                  ELSE IF Contains(token.events, Event(r)[1]) THEN Authorized(r)
                  ELSE Ignored(r) /\ r.status = 200 /\ ~r.body.json

C5_Witness ==
    \E i \in Arrived :
        LET r == requests[i]
        IN /\ token.kind = "Github" /\ Len(token.events) = 2 /\ Auth(r) = None
           /\ ~StreamFails(r.stream) /\ Verifies(r) /\ BodyOf(r.stream) # <<>>
           /\ Event(r) = Some(EvPull)
           /\ Ignored(r)

\* C6: event filtering never overrides a failed signature check: under
\* SignedWebhook with no bearer a signature that does not verify is
\* Rejected(Unauthorized) for every allowed_events and every event header,
\* and the event filter's own outcomes (Ignored, BadRequest for a missing
\* event header) occur only after the signature has verified.
C6_NoEventOverride ==
    \A i \in Arrived :
        LET r == requests[i]
        IN (token.kind = "Github" /\ Auth(r) = None /\ PastBody(r))
               => /\ Mismatches(r) => Rejected(r, UNAUTHORIZED)
                  /\ (\/ Logged(r, "github event mismatch, ignoring")
                      \/ Logged(r, "missing github event header"))
                         => r.finalized /\ Verifies(r)

C6_Witness ==
    \E i \in Arrived :
        LET r == requests[i]
        IN /\ token.kind = "Github" /\ token.events # <<>> /\ Auth(r) = None
           /\ Mismatches(r) /\ BodyOf(r.stream) # <<>>
           /\ Event(r) = Some(EvPull)
           /\ Rejected(r, UNAUTHORIZED)

\* C7: when the body stream fails before its end, the request is abandoned:
\* the partial digest is never finalized or compared, and the update command
\* is not started.
C7_AbandonOnStreamFailure ==
    \A i \in Arrived :
        LET r == requests[i]
        IN r.failed => ~r.finalized /\ r.invoked = 0

\* the failures of the invoker: the command did not start, exited non-zero,
\* or printed an array that is not a sequence of records
InvocationError(res) ==
    \/ ~res.spawned
    \/ ~res.success
    \/ StartsWith(res.stdout, <<"[">>) /\ ~FromSlice(res.stdout).ok

AuthFailureLogs ==
    { "token mismatch", "github signature mismatch",
      "missing github event header", "missing github signature header" }

\* C8: every authentication failure is answered 4xx and never 5xx, and every
\* invocation error (failure to start, non-zero exit, array output that does
\* not parse) is answered 5xx.
C8_ErrorPropagation ==
    \A i \in Arrived :
        LET r == requests[i]
        IN /\ (\E m \in AuthFailureLogs : Logged(r, m))
                  => r.pc = "done" /\ r.status \in 400..499
           /\ (r.command # None /\ InvocationError(r.command[1]))
                  => r.pc = "done" /\ r.status \in 500..599

\* the items of standard output that are records
IsObject(item) == item \in {"objF", "objP"}
UpdatedOf(item) == IF item = "objF" THEN "false" ELSE "pending"

\* C9: the invoker's classification: failure to start or non-zero exit gives
\* 500; success with output not beginning with '[' gives 200 and an empty
\* list; success with an array that parses gives 200 and exactly its
\* records; standard error has no part in which outcome is produced.
C9_InvokerClassification ==
    \A i \in Arrived :
        LET r == requests[i]
            res == r.command[1]
            objs == SelectSeq(res.stdout, IsObject)
        IN r.command # None
               => /\ (~res.spawned \/ ~res.success)
                         => Respond(r, INTERNAL_SERVER_ERROR, NoBody) = r
                  /\ (res.spawned /\ res.success /\ ~StartsWith(res.stdout, <<"[">>))
                         => Respond(r, OK, Json(<<>>)) = r
                  /\ (res.spawned /\ res.success
                         /\ StartsWith(res.stdout, <<"[">>)
                         /\ FromSlice(res.stdout).ok)
                         => /\ r.pc = "done" /\ r.status = OK /\ r.body.json
                            /\ Len(r.body.records) = Len(objs)
                            /\ \A k \in 1..Len(objs) :
                                   r.body.records[k] = Record(UpdatedOf(objs[k]))

C9_Witness ==
    \E i \in Arrived :
        LET r == requests[i]
        IN /\ r.command # None
           /\ r.command[1].success /\ r.command[1].stderr # <<>>
           /\ r.command[1].stdout = <<"[", "objF", ",", "objP", "]">>
           /\ r.status = OK
           /\ r.body = Json(<<Record("false"), Record("pending")>>)

\* the handler has done something for the request
Touched(r) ==
    r.pos > 0 \/ r.hasher # None \/ r.log # <<>> \/ r.invoked > 0 \/ r.command # None

\* C10: the limiter is applied ahead of the Authenticator: the key is
\* extracted and the decision taken before any credential check, body read or
\* invocation, and a request the limiter rejects is never handled, even with
\* valid credentials.
C10_LimiterFirst ==
    \A i \in Arrived :
        LET r == requests[i]
        IN /\ r.pc # "received" => r.key # None /\ r.admit # None
           /\ r.admit = None => ~Touched(r) /\ r.status = 0
           /\ r.admit = Some(FALSE)
                  => ~Touched(r) /\ Respond(r, TOO_MANY_REQUESTS, NoBody) = r
           /\ Touched(r) => r.admit = Some(TRUE)

C10_Witness ==
    \E i \in Arrived :
        LET r == requests[i]
        IN /\ token.kind = "Token" /\ Auth(r) = Some(token.bearer)
           /\ Sig(r) = None /\ Event(r) = None
           /\ r.admit = Some(FALSE)
           /\ r.key = Some(token.bearer)
           /\ r.status = TOO_MANY_REQUESTS

\* the Authorization header is text that begins with "Bearer "
HasBearerPrefix(values) ==
    /\ values # <<>>
    /\ \A k \in 1..Len(values[1]) : values[1][k] # NonAscii
    /\ Len(values[1]) >= Len(BearerPrefix)
    /\ \A k \in 1..Len(BearerPrefix) : values[1][k] = BearerPrefix[k]

\* key is what is left of rest when the whitespace at both ends is removed
TrimmedTo(rest, key) ==
    /\ key = <<>> \/ (~IsWhitespace(key[1]) /\ ~IsWhitespace(key[Len(key)]))
    /\ \E a, b \in 0..Len(rest) :
           /\ a + b <= Len(rest)
           /\ key = SubSeq(rest, a + 1, Len(rest) - b)
           /\ \A k \in 1..a : IsWhitespace(rest[k])
           /\ \A k \in (Len(rest) - b + 1)..Len(rest) : IsWhitespace(rest[k])

KeyOf(r) == r.key[1]

\* C11: key extraction is total and idempotent: the key is the trimmed
\* remainder after a leading case-sensitive "Bearer ", and "" when the header
\* is absent, not text or lacks the prefix; so requests without a bearer
\* value share the key "" and requests with the same bearer value share a
\* key, valid credential or not.
C11_KeyExtraction ==
    \A i \in Arrived :
        LET r == requests[i]
        IN /\ r.pc # "received" => r.key # None
           /\ r.key # None =>
                /\ IF HasBearerPrefix(r.authorization)
                   THEN TrimmedTo(SubSeq(r.authorization[1], Len(BearerPrefix) + 1,
                                         Len(r.authorization[1])), KeyOf(r))
                   ELSE KeyOf(r) = <<>>
                /\ UserTokenExtract(<<BearerPrefix \o KeyOf(r)>>) = KeyOf(r)
                /\ \A j \in Arrived :
                       (requests[j].key # None /\ Auth(requests[j]) = Auth(r))
                           => KeyOf(requests[j]) = KeyOf(r)

C11_Witness ==
    /\ token = TokenCmd(TokT)
    /\ requests[1].pc = "handler" /\ requests[2].pc = "handler"
    /\ requests[1].authorization = <<BearerPrefix \o TokU>>
    /\ requests[2].authorization = <<BearerPrefix \o <<" ">> \o TokU \o <<" ">>>>
    /\ requests[1].key = Some(TokU) /\ requests[2].key = Some(TokU)

\* C12: signature round trip: whatever the chunks a body arrives in, the
\* digest is taken over the secret followed by the chunks in arrival order,
\* and a presented value whose part after the first '=' is
\* hex(hash(secret || body)) passes the signature check, whatever stands
\* before that '='.
C12_RoundTrip ==
    \A i \in Arrived :
        LET r == requests[i]
        IN (token.kind = "Github" /\ Auth(r) = None /\ Sig(r) # None /\ Entered(r))
               => /\ r.hasher =
                        Some(Sha256Update(Sha256Update(Sha256New, token.secret),
                                          BodyOf(SubSeq(r.stream, 1, r.pos))))
                  /\ (PastBody(r) /\ ~StreamFails(r.stream) /\ Verifies(r))
                         => /\ r.pos = Len(r.stream)
                            /\ r.finalized
                            /\ ~Logged(r, "github signature mismatch")
                            /\ r.status # UNAUTHORIZED
                            /\ token.events = <<>> => Authorized(r)

C12_Witness ==
    \E i \in Arrived :
        LET r == requests[i]
        IN /\ token.kind = "Github" /\ Auth(r) = None
           /\ r.stream = <<Ok(<<1>>), Ok(<<2>>)>>
           /\ Sig(r) = Some(<<"m", "d", "5", "=">> \o DigestOf(token.secret, <<1, 2>>))
           /\ r.finalized /\ Authorized(r)

\* C13: under the None policy every admitted request is Authorized: the
\* update command is started whatever bearer, signature and event headers
\* the request carries, and no request is answered 400 or 401.
C13_NoPolicy ==
    \A i \in Arrived :
        LET r == requests[i]
        IN (token.kind = "None" /\ Entered(r))
               => /\ Authorized(r)
                  /\ r.pos = 0
                  /\ r.status \notin {BAD_REQUEST, UNAUTHORIZED}

C13_Witness ==
    \E i \in Arrived :
        LET r == requests[i]
        IN /\ token.kind = "None"
           /\ Auth(r) = Some(TokU)
           /\ Sig(r) # None /\ ~WellFormed(Sig(r))
           /\ Event(r) = Some(EvPull)
           /\ Authorized(r) /\ r.pc = "done" /\ r.status = OK

\* the event filter let the request through
EventPassed(r) ==
    token.events = <<>> \/ (Event(r) # None /\ Contains(token.events, Event(r)[1]))

\* C14: the checks of a request run in the order credential shape,
\* signature, event filter, invocation: a signature value without '=' is
\* rejected with BadRequest before any body byte is read or hashed, the event
\* filter is evaluated only after the digest comparison succeeded, and the
\* update command is started only after the event filter passed.
C14_CheckOrder ==
    \A i \in Arrived :
        LET r == requests[i]
        IN (token.kind = "Github" /\ Auth(r) = None /\ Sig(r) # None /\ Entered(r))
               => /\ ~WellFormed(Sig(r))
                         => r.pos = 0 /\ Rejected(r, BAD_REQUEST)
                  /\ (\/ Logged(r, "github event mismatch, ignoring")
                      \/ Logged(r, "missing github event header"))
                         => r.finalized /\ Verifies(r)
                  /\ r.invoked > 0
                         => r.finalized /\ Verifies(r) /\ EventPassed(r)

\* C15: under SignedWebhook with no bearer, a presented signature value
\* without '=' is malformed and gives Rejected(BadRequest) for every body and
\* every event header, never Unauthorized or Authorized; a value with '='
\* whose digest part differs from the computed digest gives
\* Rejected(Unauthorized).
C15_MalformedSignature ==
    \A i \in Arrived :
        LET r == requests[i]
        IN (token.kind = "Github" /\ Auth(r) = None /\ Sig(r) # None)
               => /\ ~WellFormed(Sig(r))
                         => /\ r.invoked = 0 /\ r.status # UNAUTHORIZED
                            /\ ~r.finalized
                            /\ PastBody(r) => Rejected(r, BAD_REQUEST) /\ r.log = <<>>
                  /\ (PastBody(r) /\ Mismatches(r))
                         => /\ Rejected(r, UNAUTHORIZED)
                            /\ r.log = <<"github signature mismatch">>

C15_Witness ==
    \E i \in Arrived :
        LET r == requests[i]
        IN /\ token.kind = "Github" /\ token.events # <<>> /\ Auth(r) = None
           /\ Sig(r) # None /\ ~WellFormed(Sig(r))
           /\ r.pos = 2 /\ BodyOf(r.stream) = <<1, 2>>
           /\ Event(r) = Some(EvPush)
           /\ Rejected(r, BAD_REQUEST)

\* the policy and the credentials for which no signature is to be verified
NoVerification(r) ==
    token.kind \in {"None", "Token"} \/ Auth(r) # None \/ Sig(r) = None

\* one step of a request reads nothing, or the next item of its stream
ReadsInOrder(r, rn) ==
    \/ rn.pos = r.pos /\ rn.hasher = r.hasher
    \/ r.pc = "handler" /\ rn.pos = 0 /\ r.hasher = None
    \/ /\ r.pc = "reading" /\ r.pos < Len(r.stream)
       /\ rn.pos = r.pos + 1
       /\ rn.hasher =
              IF r.stream[r.pos + 1].ok
              THEN Some(Sha256Update(r.hasher[1], r.stream[r.pos + 1].bytes))
              ELSE r.hasher

\* C16: the body is read only when a signature is to be verified: under the
\* None and StaticToken policies, and under SignedWebhook with a bearer
\* present or the signature header missing, no body byte is consumed; when
\* the body is read it is read once, front to back, in arrival order.
C16_BodyReadOnlyToVerify ==
    /\ [](\A i \in Arrived :
              LET r == requests[i]
              IN /\ r.pos <= Len(r.stream)
                 /\ NoVerification(r)
                        => r.pos = 0 /\ r.hasher = None /\ ~r.failed)
    /\ [][\A i \in Arrived : ReadsInOrder(requests[i], requests'[i])]_vars

C16_Witness ==
    \E i \in Arrived :
        LET r == requests[i]
        IN /\ token.kind = "Github" /\ Auth(r) # None /\ Sig(r) # None
           /\ Len(r.stream) = 2
           /\ r.pc = "done" /\ r.pos = 0

\* C17: no retries: a request starts the update command at most once, and
\* exactly once when it is Authorized; a request that ends Rejected or
\* Ignored starts it zero times, and a failed invocation is never run again.
C17_NoRetries ==
    /\ [](\A i \in Arrived :
              LET r == requests[i]
              IN /\ r.invoked <= 1
                 /\ Logged(r, "running update") <=> r.invoked = 1
                 /\ r.pc = "awaiting" => r.invoked = 1 /\ r.command = None
                 /\ r.command # None
                        => r.invoked = 1 /\ r.pc \in {"done", "panicked"}
                 /\ (r.pc = "done" /\ r.command = None) => r.invoked = 0)
    /\ [][\A i \in Arrived :
              /\ requests'[i].invoked >= requests[i].invoked
              /\ requests[i].command # None => requests'[i] = requests[i]]_vars

C17_Witness ==
    \E i \in Arrived :
        LET r == requests[i]
        IN /\ r.command # None /\ ~r.command[1].success /\ r.command[1].spawned
           /\ r.pc = "done" /\ r.status = INTERNAL_SERVER_ERROR
           /\ r.invoked = 1

\* the request as the handler receives it: its own headers and body stream
Fresh(r) ==
    [NewRequest(r.authorization, r.signature, r.event, r.stream)
        EXCEPT !.pc = "handler", !.key = r.key, !.admit = r.admit]

\* the body loop of a request on its own, up to n items
RECURSIVE ReadTo(_, _)
ReadTo(r, n) ==
    IF r.pc = "reading" /\ r.pos < n THEN ReadTo(StreamStep(r, token), n) ELSE r

\* ... and to the end of the loop
RECURSIVE ReadOut(_)
ReadOut(r) == IF r.pc = "reading" THEN ReadOut(StreamStep(r, token)) ELSE r

\* where a request stands when handled alone, from the policy, its own
\* headers and body, the items read so far and its own command's output
Alone(r) ==
    LET entered == HandlerEnter(Fresh(r), token)
        read == IF r.pc = "reading" THEN ReadTo(entered, r.pos)
                ELSE ReadOut(entered)
    IN IF r.command # None THEN CommandFinish(read, r.command[1]) ELSE read

\* C18: requests are independent under any interleaving: the policy never
\* changes after startup, a step of one request leaves every other request
\* as it was, and what the handler has made of a request depends only on the
\* policy and on that request's own headers, body and command output.
C18_Independence ==
    /\ [](\A i \in Arrived :
              Entered(requests[i]) => requests[i] = Alone(requests[i]))
    /\ [][/\ token' = token
          /\ \A i, j \in DOMAIN requests :
                 (i # j /\ requests'[i] # requests[i])
                     => requests'[j] = requests[j]]_vars

C18_Witness ==
    /\ token.kind = "Github"
    /\ requests[1].pc = "reading" /\ requests[1].pos = 1
    /\ requests[1].stream = <<Ok(<<1>>), Ok(<<2>>)>>
    /\ requests[2].pc = "done" /\ requests[2].pos = 2
    /\ requests[2].stream = <<Ok(<<1>>), Ok(<<2>>)>>
    /\ requests[2].signature = requests[1].signature
    /\ requests[2].command # None /\ requests[2].status = OK

\* the handler's task has come to its end for the request
TaskEnded(r) == r.admit = Some(TRUE) /\ r.pc \notin {"handler", "reading", "awaiting"}

\* C19: every request admitted by the limiter receives exactly one response,
\* with status 200, 400, 401 or 500, once its body stream has ended or failed
\* and the update command, if started, has terminated; no path of the
\* handler ends without a response, the one where array-marked output fails
\* to parse included.
C19_AlwaysResponds ==
    \A i \in Arrived :
        LET r == requests[i]
        IN /\ r.status # 0 => r.pc = "done"
           /\ TaskEnded(r)
                  => /\ r.pc = "done"
                     /\ r.status \in {OK, BAD_REQUEST, UNAUTHORIZED,
                                      INTERNAL_SERVER_ERROR}

====
